---- MODULE Spec2Model ----
(***************************************************************************)
(* CSV import batch job (apps/web/app/api/cron/import/csv/route.ts).       *)
(*                                                                         *)
(* Strings of the program are sequences of character codes, so that        *)
(* split("/"), join("/"), trim() and the short-link constructor are        *)
(* computed, not assumed.  A row of the CSV file holds the values of the   *)
(* two mapped columns (link, url); a file lists its rows, or gives only    *)
(* its length when its rows are the generated ones (GenRow).               *)
(*                                                                         *)
(* One invocation of POST is a process in a slot; its local variables are  *)
(* the fields of inv[s].  Every await on the cache store, the relational   *)
(* store, the queue or the notification service is one step.  The rows     *)
(* skipped below the cursor touch local state only and are folded into     *)
(* the step that starts the parse.                                         *)
(*                                                                         *)
(* Test-completion scheduler (apps/web/lib/api/links/                      *)
(* schedule-test-completion.ts).  A call is a process of a caller; the     *)
(* cancel request, the two readings of the clock and the publish request   *)
(* are separate steps.  The queue service holds the delayed messages that  *)
(* are outstanding, drops those addressed to a URL when it serves a cancel *)
(* request, and delivers a message once it is due.                         *)
(***************************************************************************)
EXTENDS Integers, Sequences, FiniteSets, Bags, TLC

VARIABLES
    file,         \* the CSV object in storage: [listed, len]
    fileExists,   \* the object is still in storage
    redis,        \* per-job keys of the cache store: key -> value
    domainsTbl,   \* slugs of the workspace's domains (prisma.domain)
    links,        \* bag of the workspace's prisma.link rows, each
                  \* <<short link, inserting invocation, path>>; the path is
                  \* "bulk", "root", or "before" (invocation 0)
    queue,        \* number of outstanding queue messages for the job
    emails,       \* completion notifications sent, in order
    inv,          \* per slot: the local variables of the running invocation
                  \* (mappedRows: history, the row index of each mappedLinks entry)
    invCount,     \* invocations started so far
    redelivered,  \* duplicate deliveries made so far
    timesMapped,  \* history: bag of row indexes passed to the Row Mapper
    materialized, \* history: rows whose batch finished processMappedLinks
    lastDone,     \* history: how the last finished invocation ended, the
                  \* response it returned, and what the rejected deletes
                  \* left behind if it finalized
    now,          \* the clock (new Date())
    messages,     \* delayed test-completion messages outstanding in the
                  \* queue service: [link, at, by]
    call,         \* per caller: the running scheduleTestCompletion call
    callCount,    \* scheduleTestCompletion calls started so far
    lastCall      \* history: the call that returned last

importVars == <<file, fileExists, redis, domainsTbl, links, queue, emails, inv,
                invCount, redelivered, timesMapped, materialized,
                lastDone>>

testVars == <<now, messages, call, callCount, lastCall>>

vars == <<importVars, testVars>>

----------------------------------------------------------------------------
(* Bounds *)

MaxShortLen == 2      \* short files: every sequence of RowSet up to this length
MaxBatches == 2       \* long files: up to this many full batches
MaxSlots == 2         \* invocations that may overlap in time
MaxRedeliver == 1     \* duplicate deliveries of a queue message
MaxInvocations == 6   \* invocations started in one run
MaxLinkLen == 3       \* one-row files: every link field up to this length
MaxCallers == 2       \* scheduleTestCompletion calls that may overlap in time
MaxCalls == 2         \* scheduleTestCompletion calls started in one run
MaxTime == 2          \* clock values 1..MaxTime

(* Program constants *)

MAX_ROWS_PER_EXECUTION == 25

Slash == 47
Space == 32
Colon == 58

ROOT == <<95, 114, 111, 111, 116>>                 \* "_root"
DUB_DOMAINS_ARRAY == {<<100>>}                     \* "d": platform domains

----------------------------------------------------------------------------
(* Strings *)

Min(a, b) == IF a < b THEN a ELSE b

RECURSIVE Digits(_)
Digits(n) == IF n < 10 THEN <<48 + n>> ELSE Digits(n \div 10) \o <<48 + (n % 10)>>

RECURSIVE TrimLeft(_)
TrimLeft(s) == IF s # <<>> /\ Head(s) = Space THEN TrimLeft(Tail(s)) ELSE s

RECURSIVE TrimRight(_)
TrimRight(s) ==
    IF s # <<>> /\ s[Len(s)] = Space THEN TrimRight(SubSeq(s, 1, Len(s) - 1)) ELSE s

Trim(s) == TrimRight(TrimLeft(s))

\* String.prototype.split(sep) for a one-character separator
RECURSIVE Split(_, _)
Split(s, sep) ==
    IF \E i \in 1..Len(s) : s[i] = sep
    THEN LET i == CHOOSE j \in 1..Len(s) :
                      s[j] = sep /\ \A k \in 1..(j - 1) : s[k] # sep
         IN  <<SubSeq(s, 1, i - 1)>> \o Split(SubSeq(s, i + 1, Len(s)), sep)
    ELSE <<s>>

\* Array.prototype.join(sep)
RECURSIVE Join(_, _)
Join(parts, sep) ==
    IF parts = <<>> THEN <<>>
    ELSE IF Len(parts) = 1 THEN parts[1]
    ELSE parts[1] \o <<sep>> \o Join(Tail(parts), sep)

IsLetter(c) == c \in 97..122

\* new URL(u) succeeds: u has a scheme (letters, then ':')
IsValidUrl(u) ==
    \E i \in 2..Len(u) : u[i] = Colon /\ \A k \in 1..(i - 1) : IsLetter(u[k])

----------------------------------------------------------------------------
(* Row Mapper *)

NoData == [domain |-> <<>>, key |-> <<>>, url |-> <<>>]

\* variant: the URL constructor accepts anything
UrlThrows_never(urlValue) == FALSE

\* try { new URL(urlValue) } catch
UrlThrows(urlValue) == ~IsValidUrl(urlValue)

getValueByKey(row, field) == Trim(row[field])

\* variant: an empty key is kept
KeyOrRoot_empty(joined) == joined

\* keyParts.join("/") || "_root"
KeyOrRoot(joined) == IF joined = <<>> THEN ROOT ELSE joined

mapCsvRowToLink(row) ==
    LET linkValue == getValueByKey(row, "link")
        urlValue == getValueByKey(row, "url")
        parts == Split(linkValue, Slash)
        domain == Head(parts)
        keyParts == Tail(parts)
        joined == Join(keyParts, Slash)
        key == KeyOrRoot(joined)
    IN  IF linkValue = <<>>
        THEN [success |-> FALSE, error |-> "Missing required field: link", data |-> NoData]
        ELSE IF urlValue = <<>>
        THEN [success |-> FALSE, error |-> "Missing required field: url", data |-> NoData]
        ELSE IF UrlThrows(urlValue)
        THEN [success |-> FALSE, error |-> "Invalid URL format", data |-> NoData]
        ELSE [success |-> TRUE, error |-> "",
              data |-> [domain |-> domain, key |-> key, url |-> urlValue]]

\* canonical short-link string of a link
linkConstructorSimple(link) ==
    IF link.key = ROOT THEN link.domain ELSE link.domain \o <<Slash>> \o link.key

\* the link validation path rejects destination URLs of a blocked scheme
BlockedUrl(u) == Head(u) = 122                      \* scheme starting with "z"

processLink(link) ==
    IF BlockedUrl(link.url)
    THEN [link |-> link, error |-> "Invalid destination URL"]
    ELSE [link |-> link, error |-> ""]

----------------------------------------------------------------------------
(* Files *)

UrlOk == <<104, Colon, 120>>                        \* "h:x"
UrlBlocked == <<122, Colon, 120>>                   \* "z:x"

RowSet ==
    { [link |-> <<97, Slash, 107>>, url |-> UrlOk],               \* a/k
      [link |-> <<97, Slash, 112>>, url |-> UrlOk],               \* a/p, pre-existing
      [link |-> <<98>>, url |-> <<Space>> \o UrlOk],              \* b (new domain, root)
      [link |-> <<97, Slash, 106>>, url |-> <<120>>],             \* unparseable url
      [link |-> <<97, Slash, 114>>, url |-> UrlBlocked] }         \* rejected downstream

RECURSIVE SeqsUpTo(_, _)
SeqsUpTo(S, n) ==
    IF n = 0 THEN {<<>>}
    ELSE LET shorter == SeqsUpTo(S, n - 1)
         IN  shorter \cup {Append(q, x) : q \in {r \in shorter : Len(r) = n - 1}, x \in S}

\* row i (from 0) of a generated file: distinct links a/<i>, some rows faulty
GenRow(i) ==
    [link |-> IF i % 10 = 5 THEN <<Space>> ELSE <<97, Slash>> \o Digits(i),
     url |-> IF i % 10 = 3 THEN <<>>
             ELSE IF i % 10 = 7 THEN UrlBlocked
             ELSE IF i % 10 = 9 THEN <<120>>
             ELSE UrlOk]

GenFile(n) == [listed |-> <<>>, len |-> n]

LongLens ==
    {b * MAX_ROWS_PER_EXECUTION + e : b \in 1..MaxBatches, e \in {0, 10}}

ShortFiles ==
    {[listed |-> rows, len |-> Len(rows)] : rows \in SeqsUpTo(RowSet, MaxShortLen)}
LongFiles == {GenFile(n) : n \in LongLens}

\* one-row files whose link field is any string of letters, '/' and blanks
LinkChars == {97, 107, Slash, Space}

LinkFiles ==
    {[listed |-> <<[link |-> l, url |-> UrlOk]>>, len |-> 1] :
        l \in SeqsUpTo(LinkChars, MaxLinkLen)}

----------------------------------------------------------------------------
(* Cache store *)

Keys == {"cursor", "created", "failed", "domains"}

RedisGet(k, default) == IF k \in DOMAIN redis THEN redis[k] ELSE default

RedisSet(r, k, v) == [x \in DOMAIN r \cup {k} |-> IF x = k THEN v ELSE r[x]]

RedisDel(r, ks) == [x \in DOMAIN r \ ks |-> r[x]]

----------------------------------------------------------------------------
(* Callers of scheduleTestCompletion *)

Callers == 1..MaxCallers

LinkIds == {1, 2}

Null == 0                                          \* testCompletedAt: null

\* the links a call may be given: with or without test variants, with no
\* completion timestamp or one in 1..MaxTime+1
TestLinks ==
    [id : LinkIds, testVariants : BOOLEAN, testCompletedAt : {Null} \cup 1..(MaxTime + 1)]

NoLink == [id |-> 0, testVariants |-> FALSE, testCompletedAt |-> Null]

NoCall ==
    [pc |-> "idle", id |-> 0, link |-> NoLink, cancel |-> "none", removed |-> 0,
     readAt |-> 0, delay |-> 0, published |-> 0, outcome |-> "none"]

----------------------------------------------------------------------------
(* Invocations *)

Slots == 1..MaxSlots

Idle ==
    [pc |-> "idle", id |-> 0, cursor |-> 0, currentRow |-> 0, isComplete |-> FALSE,
     mappedLinks |-> <<>>, mappedRows |-> <<>>, rootTasks |-> EmptyBag, validLinks |-> <<>>,
     errorLinks |-> <<>>, summary |-> <<>>]

RECURSIVE SeqToBag(_)
SeqToBag(s) == IF s = <<>> THEN EmptyBag ELSE SetToBag({Head(s)}) (+) SeqToBag(Tail(s))

Range(s) == {s[i] : i \in 1..Len(s)}

\* Array.prototype.map: the sequence of op(s[j])
RECURSIVE Map(_, _)
Map(op(_), s) == IF s = <<>> THEN <<>> ELSE <<op(Head(s))>> \o Map(op, Tail(s))

FileLen == file.len

RowAt(i) == IF i < Len(file.listed) THEN file.listed[i + 1] ELSE GenRow(i)

\* the link table has a record for the short link
LinkExists(l) == \E r \in BagToSet(links) : r[1] = l

isSuccess(r) == r.success
isFailure(r) == ~r.success /\ r.error # ""

failedMappings(s) == SelectSeq(inv[s].mappedLinks, isFailure)

successfulMappings(s) ==
    Map(LAMBDA r : r.data, SelectSeq(inv[s].mappedLinks, isSuccess))

\* no scheduleTestCompletion call has been made
NothingScheduled ==
    /\ now = 1
    /\ messages = {}
    /\ call = [c \in Callers |-> NoCall]
    /\ callCount = 0
    /\ lastCall = NoCall

Init ==
    /\ file \in ShortFiles \cup LongFiles
    /\ fileExists = TRUE
    /\ redis = <<>>
    /\ domainsTbl = {<<97>>}
    /\ links = SetToBag({<<(<<97, Slash, 112>>), 0, "before">>})
    /\ queue = 1
    /\ emails = <<>>
    /\ inv = [s \in Slots |-> Idle]
    /\ invCount = 0
    /\ redelivered = 0
    /\ timesMapped = EmptyBag
    /\ materialized = {}
    /\ lastDone = [how |-> "none", response |-> "none", rejected |-> {}]
    /\ NothingScheduled

----------------------------------------------------------------------------
(* POST: signature verified, cursor read, file fetched, rows below the     *)
(* cursor skipped                                                          *)

LowestIdle(s) == inv[s].pc = "idle" /\ \A t \in 1..(s - 1) : inv[t].pc # "idle"

\* variant: no row is skipped
SkipRows_none(cursor) == 0

\* the step callback below the cursor: currentRow++ up to the cursor, or
\* to the end of the stream
SkipRows(cursor) == Min(cursor, FileLen)

\* variant: the signature is not checked
verifyQstashSignature_skipped(signed) == TRUE

\* verifyQstashSignature resolves for a request that carries the queue's
\* signature and throws for any other
verifyQstashSignature(signed) == signed

Start(s) ==
    /\ LowestIdle(s)
    /\ queue > 0
    /\ verifyQstashSignature(TRUE)
    /\ invCount < MaxInvocations
    /\ fileExists
    /\ LET cursor == RedisGet("cursor", 0)
       IN  inv' = [inv EXCEPT ![s] =
                      [Idle EXCEPT !.pc = "parse", !.id = invCount + 1,
                                   !.cursor = cursor,
                                   !.currentRow = SkipRows(cursor)]]
    /\ queue' = queue - 1
    /\ invCount' = invCount + 1
    /\ UNCHANGED <<testVars, file, fileExists, redis, domainsTbl, links, emails,
                   redelivered, timesMapped, materialized, lastDone>>

\* a request that does not come from the queue: the signature check throws
\* and the catch block returns the error response
Forged(s) ==
    IF verifyQstashSignature(FALSE)
    THEN /\ LowestIdle(s)
         /\ invCount < MaxInvocations
         /\ fileExists
         /\ LET cursor == RedisGet("cursor", 0)
            IN  inv' = [inv EXCEPT ![s] =
                           [Idle EXCEPT !.pc = "parse", !.id = invCount + 1,
                                        !.cursor = cursor,
                                        !.currentRow = SkipRows(cursor)]]
         /\ invCount' = invCount + 1
         /\ UNCHANGED <<testVars, file, fileExists, redis, domainsTbl, links, queue, emails,
                        redelivered, timesMapped, materialized, lastDone>>
    ELSE /\ lastDone' = [how |-> "unauthorized", response |-> "error", rejected |-> {}]
         /\ UNCHANGED <<testVars, file, fileExists, redis, domainsTbl, links, queue, emails,
                        inv, invCount, redelivered, timesMapped, materialized>>

\* storage.fetch finds no object: "CSV import file not found."
FetchFailed(s) ==
    /\ LowestIdle(s)
    /\ queue > 0
    /\ invCount < MaxInvocations
    /\ ~fileExists
    /\ queue' = queue - 1
    /\ invCount' = invCount + 1
    /\ lastDone' = [how |-> "error", response |-> "error", rejected |-> {}]
    /\ UNCHANGED <<testVars, file, fileExists, redis, domainsTbl, links, emails, inv,
                   redelivered, timesMapped, materialized>>

\* variant: the budget test is off by one
BudgetExhausted_late(me) == me.currentRow - me.cursor > MAX_ROWS_PER_EXECUTION

\* the row budget of the invocation is used up
BudgetExhausted(me) == me.currentRow - me.cursor >= MAX_ROWS_PER_EXECUTION

\* variant: the cursor is not written
PersistCursor_lost(r, currentRow) == r

\* redis.set(cursor, currentRow) after the increment
PersistCursor(r, currentRow) == RedisSet(r, "cursor", currentRow)

\* step callback: the row is mapped and the cursor persisted
StepRow(s) ==
    LET me == inv[s] IN
    /\ me.pc = "parse"
    /\ me.currentRow < FileLen
    /\ ~BudgetExhausted(me)
    /\ inv' = [inv EXCEPT ![s].mappedLinks =
                              Append(me.mappedLinks, mapCsvRowToLink(RowAt(me.currentRow))),
                          ![s].mappedRows = Append(me.mappedRows, me.currentRow),
                          ![s].currentRow = me.currentRow + 1]
    /\ redis' = PersistCursor(redis, me.currentRow + 1)
    /\ timesMapped' = timesMapped (+) SetToBag({me.currentRow})
    /\ UNCHANGED <<testVars, file, fileExists, domainsTbl, links, queue, emails, invCount,
                   redelivered, materialized, lastDone>>

\* first pc of processMappedLinks: it returns at once on an empty batch
AfterParse(mapped) == IF mapped = <<>> THEN "decide" ELSE "domains"

\* step callback past the budget: parser.abort() calls complete with the
\* current row object as results.data, whose length is undefined
StepAbort(s) ==
    LET me == inv[s] IN
    /\ me.pc = "parse"
    /\ me.currentRow < FileLen
    /\ BudgetExhausted(me)
    /\ inv' = [inv EXCEPT ![s].isComplete = FALSE,
                          ![s].pc = AfterParse(me.mappedLinks)]
    /\ UNCHANGED <<testVars, file, fileExists, redis, domainsTbl, links, queue, emails,
                   invCount, redelivered, timesMapped, materialized,
                   lastDone>>

\* end of stream: complete is called with results.data = [] (step mode)
Complete(s) ==
    LET me == inv[s] IN
    /\ me.pc = "parse"
    /\ me.currentRow >= FileLen
    /\ inv' = [inv EXCEPT ![s].isComplete = (me.currentRow >= 0),
                          ![s].pc = AfterParse(me.mappedLinks)]
    /\ UNCHANGED <<testVars, file, fileExists, redis, domainsTbl, links, queue, emails,
                   invCount, redelivered, timesMapped, materialized,
                   lastDone>>

----------------------------------------------------------------------------
(* processMappedLinks *)

NonEmpty(x) == x # <<>>

selectedDomains(s) ==
    SelectSeq(Map(LAMBDA l : l.domain, successfulMappings(s)), NonEmpty)

domainsNotInWorkspace(s) ==
    SelectSeq(selectedDomains(s),
              LAMBDA d : d \notin domainsTbl /\ d \notin DUB_DOMAINS_ARRAY)

\* domains registered, placeholder root links launched (not awaited),
\* touched domains recorded
ProcessDomains(s) ==
    LET me == inv[s]
        missing == domainsNotInWorkspace(s)
        selected == selectedDomains(s)
    IN
    /\ me.pc = "domains"
    /\ domainsTbl' = domainsTbl \cup Range(missing)
    /\ redis' = IF selected # <<>>
                THEN RedisSet(redis, "domains", RedisGet("domains", {}) \cup Range(selected))
                ELSE redis
    /\ inv' = [inv EXCEPT ![s].rootTasks = SeqToBag(missing), ![s].pc = "dedup"]
    /\ UNCHANGED <<testVars, file, fileExists, links, queue, emails, invCount, redelivered,
                   timesMapped, materialized, lastDone>>

\* createLink: one more record for the link
createLink(store, link, id) ==
    store (+) SetToBag({<<linkConstructorSimple(link), id, "root">>})

\* a placeholder createLink({domain, key: "_root"}) of the invocation lands
RootLinkDone(s, d) ==
    LET me == inv[s] IN
    /\ me.pc # "idle"
    /\ BagIn(d, me.rootTasks)
    /\ links' = createLink(links, [domain |-> d, key |-> ROOT], me.id)
    /\ inv' = [inv EXCEPT ![s].rootTasks = me.rootTasks (-) SetToBag({d})]
    /\ UNCHANGED <<testVars, file, fileExists, redis, domainsTbl, queue, emails, invCount,
                   redelivered, timesMapped, materialized, lastDone>>

ShortLinksOf(ls) == Map(linkConstructorSimple, ls)

\* variant: the candidates are not filtered
DedupFilter_none(candidates, existingLinks) == candidates

\* linksToCreate after the filter against existingLinks
DedupFilter(candidates, existingLinks) ==
    SelectSeq(candidates, LAMBDA l : linkConstructorSimple(l) \notin existingLinks)

NextAfterCheck(valid, errors) ==
    IF valid # <<>> THEN "create" ELSE IF errors # <<>> THEN "push" ELSE "decide"

\* existing links read, candidates filtered and validated
CheckExisting(s) ==
    LET me == inv[s]
        candidates == successfulMappings(s)
        existingLinks == {l \in Range(ShortLinksOf(candidates)) : LinkExists(l)}
        linksToCreate == DedupFilter(candidates, existingLinks)
        processedLinks == Map(processLink, linksToCreate)
        valid == SelectSeq(processedLinks, LAMBDA p : p.error = "")
        errors == SelectSeq(processedLinks, LAMBDA p : p.error # "")
        validLinks == Map(LAMBDA p : p.link, valid)
        errorLinks == Map(LAMBDA p : [domain |-> p.link.domain, key |-> p.link.key,
                                      error |-> p.error],
                          errors)
        next == NextAfterCheck(validLinks, errorLinks)
    IN
    /\ me.pc = "dedup"
    /\ inv' = [inv EXCEPT ![s].validLinks = validLinks,
                          ![s].errorLinks = errorLinks,
                          ![s].pc = next]
    /\ materialized' = IF next = "decide"
                       THEN materialized \cup Range(me.mappedRows) ELSE materialized
    /\ UNCHANGED <<testVars, file, fileExists, redis, domainsTbl, links, queue, emails,
                   invCount, redelivered, timesMapped, lastDone>>

\* bulkCreateLinks: one record per link handed in
bulkCreateLinks(store, shortLinks, id) ==
    store (+) SeqToBag(Map(LAMBDA l : <<l, id, "bulk">>, shortLinks))

\* the valid links are inserted
BulkCreate(s) ==
    LET me == inv[s]
        shortLinks == ShortLinksOf(me.validLinks)
    IN
    /\ me.pc = "create"
    /\ links' = bulkCreateLinks(links, shortLinks, me.id)
    /\ inv' = [inv EXCEPT ![s].pc = "incr"]
    /\ UNCHANGED <<testVars, file, fileExists, redis, domainsTbl, queue, emails, invCount,
                   redelivered, timesMapped, materialized, lastDone>>

IncrCreated(s) ==
    LET me == inv[s]
        next == IF me.errorLinks # <<>> THEN "push" ELSE "decide"
    IN
    /\ me.pc = "incr"
    /\ redis' = RedisSet(redis, "created", RedisGet("created", 0) + Len(me.validLinks))
    /\ inv' = [inv EXCEPT ![s].pc = next]
    /\ materialized' = IF next = "decide"
                       THEN materialized \cup Range(me.mappedRows) ELSE materialized
    /\ UNCHANGED <<testVars, file, fileExists, domainsTbl, links, queue, emails, invCount,
                   redelivered, timesMapped, lastDone>>

PushFailed(s) ==
    LET me == inv[s] IN
    /\ me.pc = "push"
    /\ redis' = RedisSet(redis, "failed", RedisGet("failed", <<>>) \o me.errorLinks)
    /\ inv' = [inv EXCEPT ![s].pc = "decide"]
    /\ materialized' = materialized \cup Range(me.mappedRows)
    /\ UNCHANGED <<testVars, file, fileExists, domainsTbl, links, queue, emails, invCount,
                   redelivered, timesMapped, lastDone>>

----------------------------------------------------------------------------
(* Job Rescheduler *)

\* variant: end-of-file is not looked at
ShouldReschedule_noEof(me) ==
    me.currentRow - me.cursor >= MAX_ROWS_PER_EXECUTION

ShouldReschedule(me) ==
    me.currentRow - me.cursor >= MAX_ROWS_PER_EXECUTION /\ ~me.isComplete

\* qstash.publishJSON with the same payload, then the "OK" response
Reschedule(s) ==
    LET me == inv[s] IN
    /\ me.pc = "decide"
    /\ ShouldReschedule(me)
    /\ queue' = queue + 1
    /\ inv' = [inv EXCEPT ![s] = Idle]
    /\ lastDone' = [how |-> "rescheduled", response |-> "OK", rejected |-> {}]
    /\ UNCHANGED <<testVars, file, fileExists, redis, domainsTbl, links, emails, invCount,
                   redelivered, timesMapped, materialized>>

\* lrange failed, get created, smembers domains
ReadSummary(s) ==
    LET me == inv[s] IN
    /\ me.pc = "decide"
    /\ ~ShouldReschedule(me)
    /\ inv' = [inv EXCEPT ![s].pc = "email",
                          ![s].summary = [errorLinks |-> RedisGet("failed", <<>>),
                                          count |-> RedisGet("created", 0),
                                          domains |-> RedisGet("domains", {})]]
    /\ UNCHANGED <<testVars, file, fileExists, redis, domainsTbl, links, queue, emails,
                   invCount, redelivered, timesMapped, materialized,
                   lastDone>>

sendCsvImportEmails(s) ==
    LET me == inv[s] IN
    /\ me.pc = "email"
    /\ emails' = Append(emails, me.summary)
    /\ inv' = [inv EXCEPT ![s].pc = "cleanup"]
    /\ UNCHANGED <<testVars, file, fileExists, redis, domainsTbl, links, queue, invCount,
                   redelivered, timesMapped, materialized, lastDone>>

\* variant: only the cursor key is deleted
ClearedKeys_cursorOnly(rejected) == {"cursor"} \ rejected

\* the cache keys whose delete succeeds
ClearedKeys(rejected) == Keys \ rejected

\* variant: a rejected delete propagates (Promise.all)
CleanupResponse_propagate(rejected) == IF rejected = {} THEN "OK" ELSE "error"

\* the rejections are logged and NextResponse.json("OK") is returned
CleanupResponse(rejected) == "OK"

\* Promise.allSettled of the five deletes; those in rejected fail
Cleanup(s, rejected) ==
    LET me == inv[s] IN
    /\ me.pc = "cleanup"
    /\ redis' = RedisDel(redis, ClearedKeys(rejected))
    /\ fileExists' = IF "file" \in rejected THEN fileExists ELSE FALSE
    /\ inv' = [inv EXCEPT ![s] = Idle]
    /\ lastDone' = [how |-> "finalized", response |-> CleanupResponse(rejected),
                    rejected |-> rejected \cap (DOMAIN redis \cup {"file"})]
    /\ UNCHANGED <<testVars, file, domainsTbl, links, queue, emails, invCount, redelivered,
                   timesMapped, materialized>>

----------------------------------------------------------------------------
(* Environment *)

\* variant: the catch block clears the job's keys
CatchBlock_clears(r) == RedisDel(r, Keys)

\* the catch block logs the error and builds the error response; the store
\* is left as it is
CatchBlock(r) == r

\* the invocation ends abnormally: the process dies, the stream errors, or
\* an awaited call throws and the catch block returns the error response
Fail(s) ==
    /\ inv[s].pc # "idle"
    /\ inv' = [inv EXCEPT ![s] = Idle]
    /\ lastDone' = [how |-> "error", response |-> "error", rejected |-> {}]
    /\ redis' = CatchBlock(redis)
    /\ UNCHANGED <<testVars, file, fileExists, domainsTbl, links, queue, emails,
                   invCount, redelivered, timesMapped, materialized>>

\* at-least-once delivery: a message already delivered is delivered again
Redeliver ==
    /\ invCount > 0
    /\ redelivered < MaxRedeliver
    /\ queue' = queue + 1
    /\ redelivered' = redelivered + 1
    /\ UNCHANGED <<testVars, file, fileExists, redis, domainsTbl, links, emails, inv,
                   invCount, timesMapped, materialized, lastDone>>

----------------------------------------------------------------------------
(* scheduleTestCompletion *)

\* the completion URL of a link, by which the queue service addresses the
\* link's messages
completionUrl(link) == link.id

LowestFree(c) == call[c].pc = "idle" /\ \A d \in 1..(c - 1) : call[d].pc # "idle"

\* the call ends: outcome "returned", or "thrown" when an error escapes
Ended(me, outcome) == [me EXCEPT !.pc = "done", !.outcome = outcome]

\* the call starts and sends the DELETE request for the link's messages
Call(c, link) ==
    /\ LowestFree(c)
    /\ callCount < MaxCalls
    /\ call' = [call EXCEPT ![c] =
                    [NoCall EXCEPT !.pc = "cancel", !.id = callCount + 1, !.link = link]]
    /\ callCount' = callCount + 1
    /\ UNCHANGED <<importVars, now, messages, lastCall>>

\* variant: the cancel request removes nothing
Cancelled_none(msgs, url) == msgs

\* the queue service drops the outstanding messages addressed to the url
Cancelled(msgs, url) == {m \in msgs : m.link # url}

\* variant: a failed cancel escapes the call
AfterCancel_throws(ok) == IF ok THEN "decide" ELSE "thrown"

\* the try/catch around the DELETE only logs: line 33 comes next either way
AfterCancel(ok) == "decide"

\* the DELETE request is served: deleteResponse.ok
CancelOk(c) ==
    LET me == call[c]
        left == Cancelled(messages, completionUrl(me.link))
    IN
    /\ me.pc = "cancel"
    /\ messages' = left
    /\ call' = [call EXCEPT ![c].cancel = "ok",
                            ![c].removed = Cardinality(messages) - Cardinality(left),
                            ![c].pc = AfterCancel(TRUE)]
    /\ UNCHANGED <<importVars, now, callCount, lastCall>>

\* the DELETE request fails: network error or a response that is not ok
CancelFailed(c) ==
    LET me == call[c]
        next == AfterCancel(FALSE)
    IN
    /\ me.pc = "cancel"
    /\ IF next = "thrown"
       THEN /\ call' = [call EXCEPT ![c] = NoCall]
            /\ lastCall' = Ended([me EXCEPT !.cancel = "failed"], "thrown")
       ELSE /\ call' = [call EXCEPT ![c].cancel = "failed", ![c].pc = next]
            /\ UNCHANGED lastCall
    /\ UNCHANGED <<importVars, now, messages, callCount>>

\* variant: every completion timestamp counts as ahead
InFuture_always(t, clock) == TRUE

\* testCompletedAt > new Date()
InFuture(t, clock) == t > clock

\* lines 33-41: no test variants, no completion timestamp, or a timestamp
\* that is not ahead of the clock: the call returns
Decide(c) ==
    LET me == call[c]
        schedule == /\ me.link.testVariants
                    /\ me.link.testCompletedAt # Null
                    /\ InFuture(me.link.testCompletedAt, now)
    IN
    /\ me.pc = "decide"
    /\ IF schedule
       THEN /\ call' = [call EXCEPT ![c].readAt = now, ![c].pc = "delay"]
            /\ UNCHANGED lastCall
       ELSE /\ call' = [call EXCEPT ![c] = NoCall]
            /\ lastCall' = Ended([me EXCEPT !.readAt = now], "returned")
    /\ UNCHANGED <<importVars, now, messages, callCount>>

\* line 45: the delay from a second reading of the clock
ComputeDelay(c) ==
    LET me == call[c] IN
    /\ me.pc = "delay"
    /\ call' = [call EXCEPT ![c].delay = me.link.testCompletedAt - now,
                            ![c].pc = "publish"]
    /\ UNCHANGED <<importVars, now, messages, callCount, lastCall>>

\* qstash.publishJSON is served: the message is due after the delay
Publish(c) ==
    LET me == call[c]
        due == IF me.delay > 0 THEN now + me.delay ELSE now
    IN
    /\ me.pc = "publish"
    /\ messages' = messages \cup
                      {[link |-> completionUrl(me.link), at |-> due, by |-> me.id]}
    /\ call' = [call EXCEPT ![c] = NoCall]
    /\ lastCall' = Ended([me EXCEPT !.published = 1], "returned")
    /\ UNCHANGED <<importVars, now, callCount>>

\* time passes
Tick ==
    /\ now < MaxTime
    /\ now' = now + 1
    /\ UNCHANGED <<importVars, messages, call, callCount, lastCall>>

\* the queue service delivers a message that is due
Deliver(m) ==
    /\ m \in messages
    /\ m.at <= now
    /\ messages' = messages \ {m}
    /\ UNCHANGED <<importVars, now, call, callCount, lastCall>>

----------------------------------------------------------------------------
(* Specifications *)

Targets == Keys \cup {"file"}

\* the steps of a running invocation up to its decision
Steps(s) ==
    \/ StepRow(s)
    \/ Complete(s)
    \/ ProcessDomains(s)
    \/ \E d \in DOMAIN inv[s].rootTasks : RootLinkDone(s, d)
    \/ CheckExisting(s)
    \/ BulkCreate(s)
    \/ IncrCreated(s)
    \/ PushFailed(s)
    \/ ReadSummary(s)
    \/ sendCsvImportEmails(s)

\* invocations one after another, nothing fails, every message delivered once
SeqNext ==
    \/ Start(1)
    \/ Steps(1)
    \/ StepAbort(1)
    \/ Reschedule(1)
    \/ Cleanup(1, {})

SeqSpec == Init /\ [][SeqNext]_vars

\* the same, with the progress the queue and the runtime guarantee
LiveSpec == SeqSpec /\ WF_vars(SeqNext)

\* the failure-free chain, with requests that are not from the queue
AuthNext ==
    \/ SeqNext
    \/ Forged(1)

AuthSpec == Init /\ [][AuthNext]_vars

\* invocations one after another, with failures and duplicate deliveries
Next ==
    \/ Start(1)
    \/ FetchFailed(1)
    \/ Steps(1)
    \/ StepAbort(1)
    \/ Reschedule(1)
    \/ \E rejected \in SUBSET Targets : Cleanup(1, rejected)
    \/ Fail(1)
    \/ Redeliver

Spec == Init /\ [][Next]_vars

\* the failure-free chain, with cleanup deletes that may be rejected
TolerantNext ==
    \/ Start(1)
    \/ Steps(1)
    \/ StepAbort(1)
    \/ Reschedule(1)
    \/ \E rejected \in SUBSET Targets : Cleanup(1, rejected)

TolerantSpec == Init /\ [][TolerantNext]_vars

\* the Row Mapper applied to the row of a one-row file
MapperInit ==
    /\ file \in LinkFiles
    /\ fileExists = TRUE
    /\ redis = <<>>
    /\ domainsTbl = {<<97>>}
    /\ links = SetToBag({<<(<<97, Slash, 112>>), 0, "before">>})
    /\ queue = 1
    /\ emails = <<>>
    /\ inv = [s \in Slots |-> Idle]
    /\ invCount = 0
    /\ redelivered = 0
    /\ timesMapped = EmptyBag
    /\ materialized = {}
    /\ lastDone = [how |-> "none", response |-> "none", rejected |-> {}]
    /\ NothingScheduled

MapperNext ==
    \/ Start(1)
    \/ StepRow(1)
    \/ Complete(1)

MapperSpec == MapperInit /\ [][MapperNext]_vars

\* overlapping invocations, failures and duplicate deliveries, on the files
\* below the row budget (the step callback never aborts on them and no
\* continuation is published)
ShortInit == Init /\ file \in ShortFiles

OverlapNext ==
    \/ \E s \in Slots : Start(s)
    \/ \E s \in Slots : FetchFailed(s)
    \/ \E s \in Slots : Steps(s)
    \/ \E s \in Slots, rejected \in SUBSET Targets : Cleanup(s, rejected)
    \/ \E s \in Slots : Fail(s)
    \/ Redeliver

OverlapSpec == ShortInit /\ [][OverlapNext]_vars

\* invocations one after another on the files below the row budget, with
\* failures and duplicate deliveries
FaultNext ==
    \/ Start(1)
    \/ FetchFailed(1)
    \/ Steps(1)
    \/ \E rejected \in SUBSET Targets : Cleanup(1, rejected)
    \/ Fail(1)
    \/ Redeliver

FaultSpec == ShortInit /\ [][FaultNext]_vars

\* scheduleTestCompletion alone, no import job running
TestInit == Init /\ file = GenFile(0)

\* calls one after another, the queue service answering every request
TestSeqNext ==
    \/ \E link \in TestLinks : Call(1, link)
    \/ CancelOk(1)
    \/ Decide(1)
    \/ ComputeDelay(1)
    \/ Publish(1)
    \/ Tick
    \/ \E m \in messages : Deliver(m)

TestSeqSpec == TestInit /\ [][TestSeqNext]_vars

\* calls one after another, cancel requests that may fail
TestFaultNext ==
    \/ TestSeqNext
    \/ CancelFailed(1)

TestFaultSpec == TestInit /\ [][TestFaultNext]_vars

\* calls that may overlap in time, cancel requests that may fail
TestNext ==
    \/ \E c \in Callers, link \in TestLinks : Call(c, link)
    \/ \E c \in Callers : CancelOk(c)
    \/ \E c \in Callers : CancelFailed(c)
    \/ \E c \in Callers : Decide(c)
    \/ \E c \in Callers : ComputeDelay(c)
    \/ \E c \in Callers : Publish(c)
    \/ Tick
    \/ \E m \in messages : Deliver(m)

TestSpec == TestInit /\ [][TestNext]_vars

----------------------------------------------------------------------------
(* Properties *)

AllIdle == \A s \in Slots : inv[s].pc = "idle"

PersistedCursor == RedisGet("cursor", 0)

\* C1: in every invocation at most MAX_ROWS_PER_EXECUTION rows are mapped,
\* and the rows mapped are the consecutive rows of the file starting at the
\* cursor the invocation read when it started; the batch handed to
\* materialization holds the mapper results of exactly these rows.
C1_BatchIsSliceFromCursor ==
    \A s \in Slots :
        LET me == inv[s] IN
        me.pc # "idle" =>
            /\ Len(me.mappedLinks) <= MAX_ROWS_PER_EXECUTION
            /\ Len(me.mappedRows) = Len(me.mappedLinks)
            /\ \A j \in 1..Len(me.mappedRows) : me.mappedRows[j] = me.cursor + j - 1
            /\ me.pc = "domains" =>
                  me.mappedLinks = Map(LAMBDA i : mapCsvRowToLink(RowAt(i)), me.mappedRows)

\* a full batch starting at a cursor above 0 is handed to materialization
C1_Witness ==
    \E s \in Slots :
        /\ inv[s].pc = "domains"
        /\ inv[s].cursor = MAX_ROWS_PER_EXECUTION
        /\ Len(inv[s].mappedLinks) = MAX_ROWS_PER_EXECUTION

\* the invocation in slot s leaves its decision point other than by failing
DecisionStep(s) ==
    /\ inv[s].pc = "decide"
    /\ inv'[s].pc # "decide"
    /\ ~(inv'[s].pc = "idle" /\ lastDone'.how = "error")

\* a message is published by an invocation (not a duplicate delivery)
Published == queue' = queue + 1 /\ redelivered' = redelivered

\* the invocation consumed its whole budget and the file has unread rows
MoreToDo(s) ==
    /\ Len(inv[s].mappedRows) = MAX_ROWS_PER_EXECUTION
    /\ inv[s].currentRow < FileLen

\* C2: after materialization an invocation publishes exactly one
\* continuation if and only if it consumed the full budget and the file has
\* unread rows, and then it does not finalize; otherwise it takes the
\* finalize path, on which nothing is published.
C2_RescheduleIffBudgetAndNotEof ==
    [][\A s \in Slots :
          /\ DecisionStep(s) =>
                IF MoreToDo(s)
                THEN /\ Published
                     /\ inv'[s].pc = "idle"
                     /\ lastDone'.how = "rescheduled"
                     /\ emails' = emails /\ redis' = redis /\ fileExists' = fileExists
                ELSE /\ inv'[s].pc = "email"
                     /\ queue' = queue
          /\ (inv[s].pc \in {"email", "cleanup"} /\ inv'[s] # inv[s]) => ~Published
      ]_vars

\* an invocation rescheduled after a full first batch
C2_Witness ==
    /\ lastDone.how = "rescheduled"
    /\ queue = 1
    /\ PersistedCursor = MAX_ROWS_PER_EXECUTION
    /\ FileLen > MAX_ROWS_PER_EXECUTION

\* C3: without failures the k-th invocation maps exactly the rows
\* 25(k-1) .. min(25k, N)-1 in file order, none below its cursor, and leaves
\* the persisted cursor at min(25k, N); every row is mapped at most once,
\* and exactly once when the job has finalized.
C3_KthInvocationMapsKthSlice ==
    /\ \A s \in Slots :
          LET me == inv[s]
              lo == MAX_ROWS_PER_EXECUTION * (me.id - 1)
              hi == Min(MAX_ROWS_PER_EXECUTION * me.id, FileLen)
          IN  me.pc # "idle" =>
                /\ me.cursor = lo
                /\ me.mappedRows = [j \in 1..Len(me.mappedRows) |-> lo + j - 1]
                /\ me.pc # "parse" =>
                      /\ Len(me.mappedRows) = hi - lo
                      /\ PersistedCursor = hi
    /\ \A i \in 0..(FileLen - 1) : CopiesIn(i, timesMapped) <= 1
    /\ lastDone.how = "finalized" =>
          \A i \in 0..(FileLen - 1) : CopiesIn(i, timesMapped) = 1

\* the third invocation of a 60-row file has mapped rows 50..59
C3_Witness ==
    /\ FileLen = 2 * MAX_ROWS_PER_EXECUTION + 10
    /\ inv[1].id = 3
    /\ inv[1].pc = "decide"
    /\ Len(inv[1].mappedRows) = 10

Finalized ==
    /\ lastDone.how = "finalized"
    /\ Len(emails) = 1
    /\ DOMAIN redis = {}
    /\ ~fileExists

\* C4: when messages are delivered and invocations do not fail, the job
\* eventually is finalized for good: notification sent, state cleared, file
\* deleted, every row consumed, no message outstanding, nothing running.
C4_EventuallyFinalized ==
    <>[](/\ Finalized
         /\ queue = 0
         /\ AllIdle
         /\ \A i \in 0..(FileLen - 1) : BagIn(i, timesMapped))

\* a three-invocation job has finalized
C4_Witness ==
    /\ Finalized
    /\ queue = 0
    /\ invCount = 3
    /\ FileLen > 2 * MAX_ROWS_PER_EXECUTION

Creators(l) == {p[2] : p \in {q \in BagToSet(links) : q[1] = l}}

\* every short link of the table has its records from a single invocation
OneCreatorEach ==
    Cardinality({p[1] : p \in BagToSet(links)})
        = Cardinality({<<p[1], p[2]>> : p \in BagToSet(links)})

\* C5: with invocations running one after another, also from a stale
\* cursor, no short link gets a record from an invocation when an earlier
\* invocation (or the workspace before the job) already created one, and
\* the links an invocation is about to insert are not in storage from before.
C5_RerunNeverRecreates ==
    /\ OneCreatorEach
    /\ \A s \in Slots :
          inv[s].pc = "create" =>
             \A j \in 1..Len(inv[s].validLinks) :
                Creators(linkConstructorSimple(inv[s].validLinks[j])) \subseteq {inv[s].id}

\* a later invocation re-ran rows already materialized, found their links
\* in storage and has none left to insert
C5_Witness ==
    \E s \in Slots :
        /\ inv[s].id > 1
        /\ inv[s].pc = "push"
        /\ inv[s].cursor = 0
        /\ Range(inv[s].mappedRows) \subseteq materialized
        /\ inv[s].validLinks = <<>>
        /\ \E j \in 1..Len(inv[s].mappedLinks) :
              /\ inv[s].mappedLinks[j].success
              /\ \E k \in 1..(inv[s].id - 1) :
                    BagIn(<<linkConstructorSimple(inv[s].mappedLinks[j].data), k, "bulk">>,
                          links)

\* C6: under overlapping invocations of the same job no short link of the
\* file is inserted by the bulk insert of two invocations.
C6_NoLinkCreatedByTwoInvocations ==
    \A p, q \in BagToSet(links) :
        (p[1] = q[1] /\ p[3] = "bulk" /\ q[3] = "bulk") => p[2] = q[2]

\* C7: the persisted cursor never decreases while its key exists
C7_CursorNeverDecreases ==
    [][("cursor" \in DOMAIN redis /\ "cursor" \in DOMAIN redis')
          => redis'["cursor"] >= redis["cursor"]]_vars

\* rows covered by the persisted cursor that never went through
\* materialization
LostRows == {i \in 0..(PersistedCursor - 1) : i \notin materialized}

\* C8: after an invocation ended abnormally, at most one row is covered by
\* the persisted cursor without having been materialized.
C8_AtMostOneRowLost ==
    (AllIdle /\ lastDone.how = "error") => Cardinality(LostRows) <= 1

\* the reason a row fails validation, "" when it does not
RowError(row) ==
    LET r == mapCsvRowToLink(row)
    IN  IF ~r.success THEN r.error
        ELSE IF LinkExists(linkConstructorSimple(r.data)) THEN ""
        ELSE processLink(r.data).error

\* C9: every row that fails validation, in the Row Mapper or downstream,
\* appears with its reason in errorLinks of the completion notification.
C9_FailedRowsReachTheUser ==
    \A n \in 1..Len(emails) :
        \A i \in 0..(FileLen - 1) :
            RowError(RowAt(i)) # "" =>
                \E x \in Range(emails[n].errorLinks) : x.error = RowError(RowAt(i))

SummaryOfStore ==
    [errorLinks |-> RedisGet("failed", <<>>),
     count |-> RedisGet("created", 0),
     domains |-> RedisGet("domains", {})]

\* the notification carries the values of the store, and nothing is cleared
\* by the step that sends it
C10_NotifyStep ==
    \A s \in Slots :
        (inv[s].pc = "email" /\ inv'[s].pc = "cleanup") =>
            /\ emails' = Append(emails, SummaryOfStore)
            /\ redis' = redis
            /\ fileExists /\ fileExists'

\* a key or the file disappears only in the cleanup of an invocation whose
\* notification has been sent, and exactly the accepted deletes take effect
C10_ClearStep ==
    ((\E k \in DOMAIN redis : k \notin DOMAIN redis') \/ (fileExists /\ ~fileExists')) =>
        \E s \in Slots :
            /\ inv[s].pc = "cleanup" /\ inv'[s].pc = "idle"
            /\ emails # <<>> /\ emails[Len(emails)] = inv[s].summary
            /\ lastDone'.how = "finalized"
            /\ DOMAIN redis' = DOMAIN redis \cap lastDone'.rejected
            /\ fileExists' = (fileExists /\ "file" \in lastDone'.rejected)

\* C10: on the finalize path the notification is sent with the counters,
\* failed rows and domains read from the store before anything is cleared;
\* the cleanup then deletes the four keys and the file, and when no delete
\* is rejected no key and no file remain.
C10_NotifyThenClear ==
    /\ []((lastDone.how = "finalized" /\ lastDone.rejected = {})
             => (DOMAIN redis = {} /\ ~fileExists))
    /\ [][C10_NotifyStep /\ C10_ClearStep]_vars

\* a job with created links, failed rows and domains finalized cleanly
C10_Witness ==
    /\ lastDone.how = "finalized" /\ lastDone.rejected = {}
    /\ emails # <<>>
    /\ emails[Len(emails)].count > 0
    /\ emails[Len(emails)].errorLinks # <<>>
    /\ emails[Len(emails)].domains # {}
    /\ DOMAIN redis = {}
    /\ ~fileExists

\* an invocation returns without an error having been thrown
NormalReturn(s) ==
    /\ inv[s].pc \in {"decide", "cleanup"}
    /\ inv'[s].pc = "idle"
    /\ lastDone'.how # "error"

\* C11: an invocation that completes normally returns the "OK" response,
\* after publishing a continuation as well as after finalizing; a rejected
\* cleanup delete leaves the response "OK", and every other delete of the
\* five still takes effect.
C11_NormalCompletionAcknowledged ==
    [][\A s \in Slots :
          NormalReturn(s) =>
             /\ lastDone'.response = "OK"
             /\ inv[s].pc = "cleanup" =>
                   /\ \A k \in Keys \ lastDone'.rejected : k \notin DOMAIN redis'
                   /\ "file" \notin lastDone'.rejected => ~fileExists'
      ]_vars

\* a finalization answered "OK" although the delete of the cursor key was
\* rejected, with the other keys and the file gone
C11_Witness ==
    /\ lastDone.how = "finalized"
    /\ lastDone.response = "OK"
    /\ lastDone.rejected = {"cursor"}
    /\ DOMAIN redis = {"cursor"}
    /\ ~fileExists
    /\ emails # <<>> /\ emails[Len(emails)].count > 0

\* the state of the job: file, store keys, domains, links, queue,
\* notifications and the running invocations
jobState ==
    <<file, fileExists, redis, domainsTbl, links, queue, emails, inv, invCount,
      timesMapped, materialized>>

\* C12: a request whose signature verification fails gets the error
\* response and changes nothing: no store key, domain, link, queue message,
\* notification or file is touched and no invocation starts to process;
\* processing only ever starts by consuming a message of the queue.
C12_UnsignedRequestHasNoEffect ==
    [][/\ (lastDone'.how = "unauthorized" /\ lastDone' # lastDone) =>
             (lastDone'.response = "error" /\ UNCHANGED jobState)
       /\ invCount' > invCount => queue' = queue - 1
      ]_vars

\* a request was rejected while a job was in progress: cursor persisted,
\* batch being materialized
C12_Witness ==
    /\ lastDone.how = "unauthorized"
    /\ inv[1].pc = "dedup"
    /\ PersistedCursor > 0
    /\ fileExists

\* the url field of row i does not parse as an absolute URL
BadUrl(i) == ~IsValidUrl(Trim(RowAt(i).url))

\* short links of the rows of the file whose url parses
LinksOfGoodRows ==
    {linkConstructorSimple(mapCsvRowToLink(RowAt(i)).data) :
        i \in {k \in 0..(FileLen - 1) : ~BadUrl(k) /\ Trim(RowAt(k).link) # <<>>}}

\* C16: a row whose url does not parse as an absolute URL gets a failure
\* result from the Row Mapper and is not among the candidates of dedup, the
\* links validated or the links inserted: every candidate and every link
\* inserted by the job comes from a row whose url parses.
C16_UnparseableUrlNeverCreated ==
    /\ \A s \in Slots :
          LET me == inv[s]
              good == {j \in 1..Len(me.mappedRows) : ~BadUrl(me.mappedRows[j])}
          IN  /\ \A j \in 1..Len(me.mappedRows) :
                    BadUrl(me.mappedRows[j]) => isFailure(me.mappedLinks[j])
              /\ me.pc \in {"domains", "dedup"} =>
                    /\ Len(successfulMappings(s)) <= Cardinality(good)
                    /\ \A c \in Range(successfulMappings(s)) : IsValidUrl(c.url)
              /\ \A v \in Range(me.validLinks) : IsValidUrl(v.url)
    /\ \A p \in BagToSet(links) : p[3] = "bulk" => p[1] \in LinksOfGoodRows

\* a batch with a row whose url is unparseable and a row that is inserted
C16_Witness ==
    \E s \in Slots :
        /\ inv[s].pc = "incr"
        /\ inv[s].validLinks # <<>>
        /\ \E j \in 1..Len(inv[s].mappedRows) :
              /\ BadUrl(inv[s].mappedRows[j])
              /\ Trim(RowAt(inv[s].mappedRows[j]).url) # <<>>
              /\ inv[s].mappedLinks[j].error = "Invalid URL format"

\* index of the first '/' of a string, one past its end when it has none
FirstSlash(str) ==
    IF \E i \in 1..Len(str) : str[i] = Slash
    THEN CHOOSE i \in 1..Len(str) :
            str[i] = Slash /\ \A k \in 1..(i - 1) : str[k] # Slash
    ELSE Len(str) + 1

BeforeFirstSlash(str) == SubSeq(str, 1, FirstSlash(str) - 1)

AfterFirstSlash(str) == SubSeq(str, FirstSlash(str) + 1, Len(str))

\* C17: for a row with a non-empty link field and a url that parses, the
\* Row Mapper succeeds with domain the part of the (trimmed) link before its
\* first '/', and key the rest after that '/', or "_root" when nothing is
\* left after it.
C17_DomainAndKeyDerivation ==
    \A s \in Slots :
        \A j \in 1..Len(inv[s].mappedRows) :
            LET row == RowAt(inv[s].mappedRows[j])
                linkValue == Trim(row.link)
                result == inv[s].mappedLinks[j]
            IN  (linkValue # <<>> /\ IsValidUrl(Trim(row.url))) =>
                    /\ result.success
                    /\ result.data.domain = BeforeFirstSlash(linkValue)
                    /\ result.data.key =
                          IF AfterFirstSlash(linkValue) = <<>> THEN ROOT
                          ELSE AfterFirstSlash(linkValue)

\* a link without a path was mapped to the root sentinel
C17_Witness ==
    /\ inv[1].mappedRows = <<0>>
    /\ RowAt(0).link = <<Space, 107, 97>>
    /\ inv[1].mappedLinks[1].success
    /\ inv[1].mappedLinks[1].data.domain = <<107, 97>>
    /\ inv[1].mappedLinks[1].data.key = ROOT

\* the promise around Papa.parse rejects (stream or parser error): the
\* invocation in slot s leaves the parse for the catch block
StreamFailure(s) == inv[s].pc = "parse" /\ inv'[s].pc = "idle"

\* storage.fetch returns no object or no body
FetchFailure == ~fileExists /\ invCount' = invCount + 1

\* C18: an invocation whose file cannot be fetched or whose parse fails
\* returns the error response and does nothing else: no domain or link is
\* created, nothing is published, no notification is sent, no key and no
\* file is deleted, and the invocation does not go on.
C18_StreamErrorIsFatal ==
    [][(FetchFailure \/ \E s \in Slots : StreamFailure(s)) =>
          /\ lastDone'.how = "error" /\ lastDone'.response = "error"
          /\ links' = links /\ domainsTbl' = domainsTbl
          /\ materialized' = materialized
          /\ queue' <= queue
          /\ emails' = emails
          /\ redis' = redis /\ fileExists' = fileExists
          /\ \A s \in Slots : inv'[s] = inv[s] \/ inv'[s].pc = "idle"
      ]_vars

\* the parse of a two-row file failed after its first row: cursor at 1,
\* nothing materialized, published, notified or deleted
C18_Witness ==
    /\ lastDone.how = "error"
    /\ AllIdle
    /\ FileLen = 2
    /\ redis = <<>> @@ ("cursor" :> 1)
    /\ materialized = {}
    /\ Cardinality(BagToSet(links)) = 1
    /\ queue = 0
    /\ emails = <<>>
    /\ fileExists

\* outstanding completion messages of a link
Outstanding(id) == {m \in messages : m.link = id}

\* C13: at every moment at most one delayed test-completion message is
\* outstanding for a link, also when cancel requests fail or calls overlap.
C13_AtMostOneOutstanding ==
    \A id \in LinkIds : Cardinality(Outstanding(id)) <= 1

\* the call of caller c is past its cancel request
PastCancel(c) == call[c].pc \in {"decide", "delay", "publish"}

DecidesOnPast(c) ==
    /\ call[c].pc = "decide"
    /\ call[c].link.testCompletedAt # Null
    /\ call[c].link.testCompletedAt <= now

ShouldSchedule(me) ==
    /\ me.link.testVariants
    /\ me.link.testCompletedAt # Null
    /\ me.link.testCompletedAt > me.readAt

\* C19: whatever the link's test configuration, the first step of a call is
\* its cancel request, answered before the scheduling decision; a cancel
\* that fails does not end the call: the call goes on to the decision,
\* returns normally and has published exactly when the decision says so.
C19_CancelFirstAndTolerated ==
    /\ [](/\ \A c \in Callers : PastCancel(c) => call[c].cancel \in {"ok", "failed"}
          /\ lastCall.id > 0 =>
                /\ lastCall.cancel \in {"ok", "failed"}
                /\ lastCall.outcome = "returned"
                /\ (lastCall.published = 1) <=> ShouldSchedule(lastCall))
    /\ [][\A c \in Callers :
             (call[c].pc = "cancel" /\ call'[c] # call[c]) =>
                /\ call'[c].pc = "decide"
                /\ messages' \subseteq messages
                /\ lastCall' = lastCall
         ]_vars

\* a call whose cancel request failed went on and published
C19_Witness ==
    /\ lastCall.cancel = "failed"
    /\ lastCall.outcome = "returned"
    /\ lastCall.published = 1
    /\ \E m \in Outstanding(lastCall.link.id) : m.by = lastCall.id

\* C20: a call publishes exactly one message, with a strictly positive
\* delay up to the completion timestamp, when the link has test variants
\* and a completion timestamp ahead of the clock, and none otherwise.
C20_OneMessageWithPositiveDelay ==
    /\ \A c \in Callers : call[c].pc = "publish" => call[c].delay > 0
    /\ lastCall.id > 0 =>
          /\ lastCall.published = (IF ShouldSchedule(lastCall) THEN 1 ELSE 0)
          /\ lastCall.published = 1 => lastCall.delay > 0

\* the part of C20 that does not depend on the second reading of the
\* clock: one message when the decision is to schedule, none otherwise
PublishedAsDecided ==
    lastCall.id > 0 =>
        lastCall.published = (IF ShouldSchedule(lastCall) THEN 1 ELSE 0)

\* number of records of the link table among the given ones
RECURSIVE Copies(_)
Copies(recs) ==
    IF recs = {} THEN 0
    ELSE LET p == CHOOSE x \in recs : TRUE
         IN  CopiesIn(p, links) + Copies(recs \ {p})

\* number of records of the link table for a short link
RecordsOf(l) == Copies({p \in BagToSet(links) : p[1] = l})

\* C21: after every materialization the link table holds one record per
\* short link (domain+key), also for two rows of one batch with the same
\* short link and for a row on the root key of a new domain whose
\* placeholder root link is created by the same invocation.
C21_LinkRecordsUnique ==
    \A p \in BagToSet(links) : RecordsOf(p[1]) = 1

\* number of link records the invocations of the job inserted for rows of
\* the file
CreatedFromRows == Copies({p \in BagToSet(links) : p[3] = "bulk"})

\* C22: the count of a completion notification is the number of link
\* records the job's invocations have inserted for rows of the file when
\* the notification is sent, whatever invocations were redelivered or
\* ended in an error on the way.
C22_CountIsRecordsCreated ==
    [][\A s \in Slots :
          (inv[s].pc = "email" /\ inv'[s].pc = "cleanup") =>
              /\ emails' = Append(emails, inv[s].summary)
              /\ inv[s].summary.count = CreatedFromRows
      ]_vars

====
